---- MODULE Spec2Model ----
(***************************************************************************)
(* A model of the recommendation pipeline of the repository:               *)
(*   app/recommendation_refiner.py  (call_gemini_api, refine_recommendations) *)
(*   app/relevance_scorer.py        (calculate_relevance_scores)           *)
(*   app/recommendation_engine.py   (generate_job_recommendations, caches) *)
(*   app/database.py, app/main.py   (profile store, parse-query endpoint)  *)
(*                                                                         *)
(* Python values are modelled as follows.  A dict is a TLA+ record whose   *)
(* DOMAIN is the set of keys that are present.  A list is a sequence.  An  *)
(* exception is the name of its class.  The outcome of a call is a record  *)
(* [kind |-> "return", value |-> v] or [kind |-> "raise", exc |-> name].   *)
(***************************************************************************)
EXTENDS Integers, Sequences, FiniteSets, TLC

(***************************************************************************)
(* Bounds of the model.                                                    *)
(***************************************************************************)
\* candidate lists have 0..MaxSmall records, or TopJobsCap..MaxJobs records
MaxSmall == 2
MaxJobs == 21
\* the limit argument ranges over 0..MaxLimit
MaxLimit == 3
\* the LLM's JSON array holds at most MaxItems items
MaxItems == 2
MaxRequests == 2
MaxUpdates == 2
\* a profile has at most MaxInterests interests
MaxInterests == 2
\* a connector's payload holds at most MaxResults items
MaxResults == 1

(***************************************************************************)
(* Program constants.                                                      *)
(***************************************************************************)
\* jobs[:20]
TopJobsCap == 20
\* call_gemini_api(payload, retries=3, backoff=2)
retries == 3
backoff == 2
\* fetch_books_data(query, limit=5), fetch_movies_data(query, limit=5)
InterestLimit == 5

Min(a, b) == IF a <= b THEN a ELSE b

\* Python's seq[:n] for n >= 0
Take(s, n) == SubSeq(s, 1, Min(n, Len(s)))

Return(v) == [kind |-> "return", value |-> v]
Raise(e) == [kind |-> "raise", exc |-> e]

(***************************************************************************)
(* Candidate records.  A record is identified by its title; the scorer's   *)
(* relevance_score is already set on the records the re-ranker receives.   *)
(***************************************************************************)
Job(i) == [title |-> i, relevance_score |-> 100 - i]

JobList(n) == [i \in 1..n |-> Job(i)]

JobCounts == (0..MaxSmall) \cup (TopJobsCap..MaxJobs)

JobLists == {JobList(n) : n \in JobCounts}

(***************************************************************************)
(* User profiles.  A profile is a dict whose interests, preferences and    *)
(* demographics may each be absent, None or a collection; inside them the  *)
(* lists may again be absent or None.  The record below is flat: the field *)
(* x_k says whether key x is "absent", holds "None" or holds a value, and  *)
(* field x is that value (meaningful only when x_k names a value).  py     *)
(* tells a dict from the value None passed as user_profile.                *)
(***************************************************************************)
FullProfile ==
    [py |-> "dict",
     interests_k |-> "list", interests |-> <<"ai">>,
     demographics_k |-> "dict",
     skills_k |-> "list", skills |-> <<"python">>,
     industries_k |-> "list", industries |-> <<"health">>,
     preferences_k |-> "dict",
     role_k |-> "str", role |-> "engineer",
     location_k |-> "str", location |-> "berlin",
     remote |-> "True", hybrid |-> "absent",
     companies |-> {"acme"}]

\* {}
EmptyProfile ==
    [py |-> "dict",
     interests_k |-> "absent", interests |-> <<>>,
     demographics_k |-> "absent",
     skills_k |-> "absent", skills |-> <<>>,
     industries_k |-> "absent", industries |-> <<>>,
     preferences_k |-> "absent",
     role_k |-> "absent", role |-> "",
     location_k |-> "absent", location |-> "",
     remote |-> "absent", hybrid |-> "absent",
     companies |-> {}]

\* None passed as the profile
NoneProfile == [EmptyProfile EXCEPT !.py = "None"]

\* {"interests": None, "preferences": None, "demographics": None}
NoneFieldsProfile ==
    [EmptyProfile EXCEPT !.interests_k = "None", !.preferences_k = "None",
                         !.demographics_k = "None"]

\* {"demographics": None} beside usable preferences
NoneDemographicsProfile == [FullProfile EXCEPT !.demographics_k = "None"]

\* {"preferences": None} beside usable demographics
NonePreferencesProfile == [FullProfile EXCEPT !.preferences_k = "None"]

\* {"demographics": {"skills": None, "industries": [...]}}
NoneSkillsProfile == [FullProfile EXCEPT !.skills_k = "None"]

\* {"demographics": {"skills": [...], "industries": None}}
NoneIndustriesProfile == [FullProfile EXCEPT !.industries_k = "None"]

\* {"interests": ["ai"]} and nothing else
InterestsOnlyProfile == [EmptyProfile EXCEPT !.interests_k = "list", !.interests = <<"ai">>]

\* {"interests": [], "demographics": {"skills": [], "industries": None},
\*  "preferences": {"role": None, "location": "berlin", "remote": True}}
EmptyTermsProfile ==
    [FullProfile EXCEPT !.interests = <<>>, !.skills = <<>>, !.industries_k = "None",
                        !.role_k = "None", !.companies = {}]

\* {"preferences": {"location": None, ...}} beside usable demographics
NoneLocationProfile == [FullProfile EXCEPT !.location_k = "None"]

\* {"preferences": {"remote": True, "hybrid": True, ...}}
BothModesProfile == [FullProfile EXCEPT !.hybrid = "True"]

\* {"demographics": {"skills": ["the"]}}: a profile query of stop words only
StopWordProfile ==
    [EmptyProfile EXCEPT !.demographics_k = "dict", !.skills_k = "list", !.skills = <<"the">>]

Profiles ==
    {FullProfile, EmptyProfile, NoneProfile, NoneFieldsProfile,
     NoneDemographicsProfile, NonePreferencesProfile, NoneSkillsProfile,
     NoneIndustriesProfile, InterestsOnlyProfile}

\* the scorer's profiles: those above and four that differ from them only in
\* what calculate_relevance_scores reads (the terms, preferences.location,
\* preferences.hybrid)
ScorerProfiles ==
    Profiles \cup {EmptyTermsProfile, NoneLocationProfile, StopWordProfile, BothModesProfile}

(***************************************************************************)
(* refine_recommendations, lines 50-71: the profile text of the prompt.    *)
(* user_profile.get("demographics", {}) yields the stored None when the    *)
(* key is present with value None, and None.get raises AttributeError;     *)
(* ", ".join(None) raises TypeError.  The prompt itself is opaque.         *)
(***************************************************************************)
BuildPrompt(user_profile) ==
    IF user_profile.py = "None" THEN Raise("AttributeError")
    ELSE IF user_profile.demographics_k = "None" THEN Raise("AttributeError")
    ELSE IF user_profile.demographics_k = "dict" /\ user_profile.skills_k = "None"
        THEN Raise("TypeError")
    ELSE IF user_profile.demographics_k = "dict" /\ user_profile.industries_k = "None"
        THEN Raise("TypeError")
    ELSE IF user_profile.preferences_k = "None" THEN Raise("AttributeError")
    ELSE Return("prompt")

(***************************************************************************)
(* The LLM's answer.  An item is one JSON object of the array the prompt   *)
(* asks for; the prompt names the index key "job_index", the repository's  *)
(* test fixture and the specification name it "result_index".              *)
(***************************************************************************)
\* negative, zero, within a short list, the 20th record and one beyond it
IndexValues == (-1..MaxSmall) \cup {TopJobsCap, TopJobsCap + 1}

Items ==
    {[job_index |-> k, explanation |-> "x", relevance_score |-> 80] : k \in IndexValues}
    \cup {[job_index |-> 1]}
    \cup {[result_index |-> k, explanation |-> "x", relevance_score |-> 80] : k \in 1..2}
    \cup {[explanation |-> "x", relevance_score |-> 80]}

\* the sequences over S of length 0..n
SeqsUpTo(S, n) == UNION {[1..k -> S] : k \in 0..n}

(***************************************************************************)
(* The response text is a sequence of tokens: brackets, commas, prose and  *)
(* whole JSON objects ("{...}"); white space between tokens is implicit.   *)
(***************************************************************************)
LBracket == [t |-> "["]
RBracket == [t |-> "]"]
Comma == [t |-> ","]
Prose == [t |-> "prose"]
Obj(item) == [t |-> "{}", v |-> item]
IsObj(tok) == tok.t = "{}"

\* json.dumps of a list of objects
RECURSIVE JoinObjs(_)
JoinObjs(items) ==
    IF Len(items) = 0 THEN <<>>
    ELSE IF Len(items) = 1 THEN <<Obj(items[1])>>
    ELSE <<Obj(items[1]), Comma>> \o JoinObjs(Tail(items))

Dumps(items) == <<LBracket>> \o JoinObjs(items) \o <<RBracket>>

\* the answers in which the array is well formed: bare, or (the shorter
\* ones) inside prose and code fences
ArrayTexts ==
    {Dumps(items) : items \in SeqsUpTo(Items, MaxItems)}
    \cup {<<Prose>> \o Dumps(items) \o <<Prose>> : items \in SeqsUpTo(Items, 1)}

SomeObj == Obj([job_index |-> 1, explanation |-> "x", relevance_score |-> 80])

\* the answers without a well-formed array
BrokenTexts ==
    {<<>>,
     <<Prose>>,
     <<LBracket, SomeObj>>,
     <<SomeObj, RBracket>>,
     <<LBracket, SomeObj, SomeObj, RBracket>>,
     <<LBracket, SomeObj, Comma, RBracket>>,
     <<LBracket, SomeObj, Prose, SomeObj, RBracket>>,
     Dumps(<<SomeObj.v>>) \o <<Prose>> \o Dumps(<<SomeObj.v>>)}

Texts == ArrayTexts \cup BrokenTexts

(***************************************************************************)
(* re.search(r'\[\s*\{.*\}\s*\]', response_text, re.DOTALL): the leftmost  *)
(* "[" that is followed by an object and from which some object followed   *)
(* by "]" can be reached; ".*" is greedy, so the match ends at the last    *)
(* such "]".  The result is the matched tokens, or <<>> for no match (a    *)
(* match is never empty).                                                  *)
(***************************************************************************)
MatchEnds(text, i) ==
    {j \in (i + 2)..Len(text) : text[j].t = "]" /\ IsObj(text[j - 1])}

MatchStarts(text) ==
    {i \in 1..Len(text) :
        /\ text[i].t = "["
        /\ i + 1 <= Len(text)
        /\ IsObj(text[i + 1])
        /\ MatchEnds(text, i) # {}}

SetMin(S) == CHOOSE x \in S : \A y \in S : x <= y
SetMax(S) == CHOOSE x \in S : \A y \in S : x >= y

json_match(text) ==
    IF MatchStarts(text) = {} THEN <<>>
    ELSE LET i == SetMin(MatchStarts(text))
             j == SetMax(MatchEnds(text, i))
         IN SubSeq(text, i, j)

(***************************************************************************)
(* json.loads of the matched text: it decodes exactly "[" obj ("," obj)*   *)
(* "]" and raises JSONDecodeError on anything else.                        *)
(***************************************************************************)
Decodes(m) ==
    /\ Len(m) >= 3
    /\ Len(m) % 2 = 1
    /\ m[1].t = "["
    /\ m[Len(m)].t = "]"
    /\ \A k \in 2..(Len(m) - 1) : IF k % 2 = 0 THEN IsObj(m[k]) ELSE m[k].t = ","

json_loads(m) ==
    IF Decodes(m)
    THEN Return([k \in 1..((Len(m) - 1) \div 2) |-> m[2 * k].v])
    ELSE Raise("JSONDecodeError")

(***************************************************************************)
(* The JSON body of the HTTP response (the value of response.json()).      *)
(* candidates_k, content_k, parts_k and text_k say whether the key is      *)
(* "absent", holds an "empty" list or holds a value; py is "dict" for a    *)
(* JSON object and "list" for any other JSON value.                        *)
(***************************************************************************)
TextData(text) ==
    [py |-> "dict", candidates_k |-> "list", content_k |-> "dict",
     parts_k |-> "list", text_k |-> "str", text |-> text]

BrokenDatas ==
    {[TextData(<<>>) EXCEPT !.py = "list"],
     [TextData(<<>>) EXCEPT !.candidates_k = "absent"],
     [TextData(<<>>) EXCEPT !.candidates_k = "empty"],
     [TextData(<<>>) EXCEPT !.content_k = "absent"],
     [TextData(<<>>) EXCEPT !.parts_k = "absent"],
     [TextData(<<>>) EXCEPT !.parts_k = "empty"],
     [TextData(<<>>) EXCEPT !.text_k = "absent"]}

Datas == {TextData(text) : text \in Texts} \cup BrokenDatas

(***************************************************************************)
(* refine_recommendations, lines 119-124:                                  *)
(*   data.get("candidates", [{}])[0].get("content", {})                    *)
(*       .get("parts", [{}])[0].get("text", "")                            *)
(***************************************************************************)
response_text(data) ==
    IF data.py # "dict" THEN Raise("AttributeError")
    ELSE IF data.candidates_k = "empty" THEN Raise("IndexError")
    ELSE IF data.candidates_k = "absent" THEN Return(<<>>)
    ELSE IF data.content_k = "absent" THEN Return(<<>>)
    ELSE IF data.parts_k = "empty" THEN Raise("IndexError")
    ELSE IF data.parts_k = "absent" THEN Return(<<>>)
    ELSE IF data.text_k = "absent" THEN Return(<<>>)
    ELSE Return(data.text)

\* d[k] = v on a dict
SetKey(d, k, v) == (k :> v) @@ d

\* item.get(k, default)
Get(item, k, default) == IF k \in DOMAIN item THEN item[k] ELSE default

(***************************************************************************)
(* refine_recommendations, lines 134-145: the mapping loop, from item i    *)
(* on, with the recommendations collected so far.  item.get("job_index")   *)
(* is None for an item without that key, and None - 1 raises TypeError.    *)
(***************************************************************************)
recommendation(top_jobs, job_index, item) ==
    SetKey(SetKey(top_jobs[job_index + 1],
                  "explanation", Get(item, "explanation", "No explanation provided.")),
           "gemini_relevance_score", Get(item, "relevance_score", 0))

InRange(job_index, top_jobs) == 0 <= job_index /\ job_index < Len(top_jobs)

RECURSIVE MapItems(_, _, _, _, _)
MapItems(refined_results_data, top_jobs, limit, i, final_recommendations) ==
    IF i > Len(refined_results_data) THEN Return(final_recommendations)
    ELSE LET item == refined_results_data[i] IN
         IF "job_index" \notin DOMAIN item THEN Raise("TypeError")
         ELSE LET job_index == item.job_index - 1 IN
              IF InRange(job_index, top_jobs)
              THEN LET appended == Append(final_recommendations,
                                          recommendation(top_jobs, job_index, item))
                   IN IF Len(appended) >= limit
                      THEN Return(appended)
                      ELSE MapItems(refined_results_data, top_jobs, limit, i + 1, appended)
              ELSE MapItems(refined_results_data, top_jobs, limit, i + 1,
                            final_recommendations)

(***************************************************************************)
(* refine_recommendations, lines 118-147: the body of the try block after  *)
(* call_gemini_api has returned data.                                      *)
(***************************************************************************)
TryBody(data, top_jobs, limit) ==
    LET text == response_text(data) IN
    IF text.kind = "raise" THEN text
    ELSE LET m == json_match(text.value) IN
         IF Len(m) = 0 THEN Raise("ValueError")
         ELSE LET loaded == json_loads(m) IN
              IF loaded.kind = "raise" THEN loaded
              ELSE LET mapped == MapItems(loaded.value, top_jobs, limit, 1, <<>>) IN
                   IF mapped.kind = "raise" THEN mapped
                   ELSE Return(Take(mapped.value, limit))

(***************************************************************************)
(* What the call does to the list it was given.  top_jobs = jobs[:20] is a *)
(* new list of the same dicts, so top_jobs[k] and jobs[k] are one object;  *)
(* final_recommendations and the slice of the fallback are new lists.  The *)
(* only writes to a dict are those of lines 138-139, on `recommendation`.  *)
(***************************************************************************)
\* the input list after lines 137-139 had `recommendation` be top_jobs[job_index]
\* itself: the two keys land in the input record
WriteInPlace(jobs, job_index, item) ==
    [jobs EXCEPT ![job_index + 1] = recommendation(jobs, job_index, item)]

\* the input list after lines 137-139: recommendation is top_jobs[job_index].copy(),
\* a new dict, and the two keys land in it
WriteToCopy(jobs, job_index, item) == jobs

\* the input list after the mapping loop, from item i on, n recommendations
\* collected so far
RECURSIVE InputAfterLoop(_, _, _, _, _, _)
InputAfterLoop(refined_results_data, top_jobs, limit, i, n, jobs) ==
    IF i > Len(refined_results_data) THEN jobs
    ELSE LET item == refined_results_data[i] IN
         IF "job_index" \notin DOMAIN item THEN jobs
         ELSE LET job_index == item.job_index - 1 IN
              IF InRange(job_index, top_jobs)
              THEN LET written == WriteToCopy(jobs, job_index, item)
                   IN IF n + 1 >= limit THEN written
                      ELSE InputAfterLoop(refined_results_data, top_jobs, limit, i + 1,
                                          n + 1, written)
              ELSE InputAfterLoop(refined_results_data, top_jobs, limit, i + 1, n, jobs)

\* the input list after the try block and the except clause
InputAfterTry(data, top_jobs, limit, jobs) ==
    LET text == response_text(data) IN
    IF text.kind = "raise" \/ Len(json_match(text.value)) = 0 THEN jobs
    ELSE LET loaded == json_loads(json_match(text.value)) IN
         IF loaded.kind = "raise" THEN jobs
         ELSE InputAfterLoop(loaded.value, top_jobs, limit, 1, 0, jobs)

(***************************************************************************)
(* refine_recommendations, lines 149-152:                                  *)
(*   except (requests.RequestException, json.JSONDecodeError, ValueError)  *)
(* JSONDecodeError is a ValueError; RuntimeError, TypeError, IndexError,   *)
(* AttributeError and a bare Exception are none of the three.              *)
(***************************************************************************)
\* a narrower except clause: except requests.RequestException only
CaughtRequestExceptionOnly == {"RequestException"}

Caught == {"RequestException", "JSONDecodeError", "ValueError"}

Fallback(top_jobs, limit) == Return(Take(top_jobs, limit))

Except(outcome, top_jobs, limit) ==
    IF outcome.kind = "raise" /\ outcome.exc \in Caught
    THEN Fallback(top_jobs, limit)
    ELSE outcome

\* the candidates passed on without the cut to 20
top_jobs_untruncated(jobs) == jobs

\* line 48
top_jobs_of(jobs) == Take(jobs, TopJobsCap)

(***************************************************************************)
(* The relevance scorer (app/relevance_scorer.py).                         *)
(*                                                                         *)
(* Texts are sets of lower-case words; "x in text" is membership of a      *)
(* word.  A score is an integer: in units of 1/10000 inside the loop, in   *)
(* hundredths once rounded (round(score, 2)).                              *)
(* A candidate carries url (its identity), the words of its title and      *)
(* description, location, company, source and posted_date; title_k and     *)
(* location_k say whether the key is "absent", holds "None" or a "str";    *)
(* score_k says whether a relevance_score is already present.              *)
(***************************************************************************)
Candidate(words, location_k, location, company, source, posted_date) ==
    [url |-> 0, title_k |-> "str", words |-> words,
     location_k |-> location_k, location |-> location, company |-> company,
     source |-> source, posted_date |-> posted_date,
     score_k |-> "absent", relevance_score |-> 0]

\* posted_date: "absent", "week" (under 7 days old), "month" (under 30 days old),
\* "old", "unparsable"
CandidateKinds ==
    {Candidate({"python", "ai"}, "str", {"berlin", "remote", "hybrid"}, {"acme"}, "linkedin", "week"),
     Candidate({"python", "health"}, "str", {"hybrid"}, {}, "indeed", "month"),
     Candidate({"cooking"}, "absent", {}, {}, "other", "unparsable"),
     Candidate({"the"}, "absent", {}, {}, "other", "absent"),
     [Candidate({"engineer"}, "str", {"berlin"}, {}, "other", "old") EXCEPT !.title_k = "absent"],
     Candidate({"health"}, "None", {}, {}, "other", "absent"),
     [Candidate({"cooking"}, "absent", {}, {}, "other", "absent")
         EXCEPT !.score_k = "present", !.relevance_score = 4200]}

\* the candidate lists: records of the kinds above, told apart by url
CandidateLists ==
    {[i \in 1..Len(kinds) |-> [kinds[i] EXCEPT !.url = i]] :
        kinds \in SeqsUpTo(CandidateKinds, MaxSmall)}

\* sklearn's English stop words (those that occur in the model's texts)
StopWords == {"the"}

\* lines 48-52: title + description + company + location
Document(job) == job.words \cup job.company \cup job.location

\* lines 27-39: skills, industries and the preferred role; interests are not read
profile_terms(user_profile) ==
    (IF user_profile.demographics_k = "dict" /\ user_profile.skills_k = "list"
     THEN {user_profile.skills[i] : i \in 1..Len(user_profile.skills)} ELSE {})
    \cup (IF user_profile.demographics_k = "dict" /\ user_profile.industries_k = "list"
          THEN {user_profile.industries[i] : i \in 1..Len(user_profile.industries)} ELSE {})
    \cup (IF user_profile.preferences_k = "dict" /\ user_profile.role_k = "str"
             /\ user_profile.role # ""
          THEN {user_profile.role} ELSE {})

\* a guard that lets {} through
FalsyNoneOnly(user_profile) == user_profile.py = "None"

\* `not user_profile`: None or {}
Falsy(user_profile) ==
    \/ user_profile.py = "None"
    \/ /\ user_profile.interests_k = "absent"
       /\ user_profile.demographics_k = "absent"
       /\ user_profile.preferences_k = "absent"

(***************************************************************************)
(* TfidfVectorizer(stop_words="english").fit_transform raises ValueError   *)
(* on an empty vocabulary.  The cosine similarities it leads to are an     *)
(* input of the model: 0 exactly for a document that shares no vocabulary  *)
(* word with the profile query, positive otherwise.                        *)
(***************************************************************************)
Vocabulary(jobs, profile_query) ==
    (UNION {Document(jobs[i]) : i \in 1..Len(jobs)} \cup profile_query) \ StopWords

\* scaled_scores other than 0: 20.0 and 60.0
PositiveScores == {200000, 600000}

Similarities(jobs, profile_query) ==
    {sims \in [1..Len(jobs) -> {0} \cup PositiveScores] :
        \A i \in 1..Len(jobs) :
            sims[i] = 0 <=> (Document(jobs[i]) \cap profile_query) \ StopWords = {}}

(***************************************************************************)
(* np.log1p in fixed point: LnFixed(x) is 10000 * ln(x / 10000) for        *)
(* x >= 10000, by halving and the series 2 * artanh((m - 1) / (m + 1)).    *)
(* Log1p(score, pct) is log1p(score * pct / 100), score in 1/10000.        *)
(***************************************************************************)
RECURSIVE LnFixed(_)
LnFixed(x) ==
    IF x >= 20000 THEN 6931 + LnFixed(x \div 2)
    ELSE LET z == ((x - 10000) * 10000) \div (x + 10000)
             z2 == (z * z) \div 10000
             t3 == (z * z2) \div 10000
             t5 == (t3 * z2) \div 10000
             t7 == (t5 * z2) \div 10000
         IN 2 * (z + t3 \div 3 + t5 \div 5 + t7 \div 7)

Log1p(score, pct) == LnFixed(10000 + (score * pct) \div 100)

\* round(score, 2), in hundredths
Round2(score) == (score + 50) \div 100

(***************************************************************************)
(* lines 82-128: the boosts of one candidate, then the assignment of       *)
(* relevance_score and the log line that reads job['title'].               *)
(***************************************************************************)
LocationBoost(score, job, user_profile) ==
    IF /\ user_profile.preferences_k = "dict"
       /\ user_profile.location_k = "str"
       /\ user_profile.location # ""
       /\ user_profile.location \in job.location
    THEN score + Log1p(score, 30) ELSE score

\* lines 92-95 with `if` in the place of `elif`
WorkModeBoostBoth(score, job, user_profile) ==
    LET remote == IF /\ user_profile.preferences_k = "dict"
                     /\ user_profile.remote = "True"
                     /\ "remote" \in job.location
                  THEN score + Log1p(score, 40) ELSE score
    IN IF /\ user_profile.preferences_k = "dict"
          /\ user_profile.hybrid = "True"
          /\ "hybrid" \in job.location
       THEN remote + Log1p(remote, 30) ELSE remote

\* lines 92-95
WorkModeBoost(score, job, user_profile) ==
    IF /\ user_profile.preferences_k = "dict"
       /\ user_profile.remote = "True"
       /\ "remote" \in job.location
    THEN score + Log1p(score, 40)
    ELSE IF /\ user_profile.preferences_k = "dict"
            /\ user_profile.hybrid = "True"
            /\ "hybrid" \in job.location
         THEN score + Log1p(score, 30)
         ELSE score

CompanyBoost(score, job, user_profile) ==
    IF user_profile.preferences_k = "dict" /\ user_profile.companies \cap job.company # {}
    THEN score + Log1p(score, 50) ELSE score

RecencyBoost(score, job) ==
    IF job.posted_date = "week" THEN score + Log1p(score, 30)
    ELSE IF job.posted_date = "month" THEN score + Log1p(score, 15)
    ELSE score

SourceBoost(score, job) ==
    IF job.source = "indeed" THEN score + Log1p(score, 5)
    ELSE IF job.source = "linkedin" THEN score + Log1p(score, 10)
    ELSE score

Boosted(score, job, user_profile) ==
    SourceBoost(RecencyBoost(CompanyBoost(WorkModeBoost(
        LocationBoost(score, job, user_profile), job, user_profile), job, user_profile),
        job), job)

SetScore(job, score) == [job EXCEPT !.score_k = "present", !.relevance_score = score]

\* an exception inside the try block; jobs is the list as the block left it
RaiseWith(e, jobs) == [kind |-> "raise", exc |-> e, jobs |-> jobs]

\* the jobs after the loop over jobs[i..], or the exception that ends it:
\* user_profile.get("preferences", {}).get("location", "").lower() raises
\* AttributeError on a None location, before record i is scored; the log
\* line's job['title'] raises KeyError, after record i was given its score
RECURSIVE ScoreLoop(_, _, _, _)
ScoreLoop(jobs, scaled_scores, user_profile, i) ==
    IF i > Len(jobs) THEN Return(jobs)
    ELSE IF user_profile.preferences_k = "dict" /\ user_profile.location_k = "None"
         THEN RaiseWith("AttributeError", jobs)
    ELSE LET scored == [jobs EXCEPT ![i] = SetScore(@, Round2(Boosted(scaled_scores[i], @,
                                                                      user_profile)))]
         IN IF jobs[i].title_k = "absent" THEN RaiseWith("KeyError", scored)
            ELSE ScoreLoop(scored, scaled_scores, user_profile, i + 1)

\* a zeroing that sets nothing
ZeroNone(jobs) == jobs

\* a zeroing that leaves alone the records that already have a score
ZeroUnscored(jobs) ==
    [i \in 1..Len(jobs) |-> IF jobs[i].score_k = "present" THEN jobs[i]
                            ELSE SetScore(jobs[i], 0)]

ZeroAll(jobs) == [i \in 1..Len(jobs) |-> SetScore(jobs[i], 0)]

\* x.get("relevance_score", 0)
SortKey(job) == IF job.score_k = "present" THEN job.relevance_score ELSE 0

\* list.sort(key=..., reverse=True): stable, descending
\* an insertion that puts a record before the records of equal score
RECURSIVE InsertDescendingUnstable(_, _)
InsertDescendingUnstable(sorted, job) ==
    IF Len(sorted) = 0 THEN <<job>>
    ELSE IF SortKey(sorted[Len(sorted)]) > SortKey(job) THEN Append(sorted, job)
    ELSE Append(InsertDescendingUnstable(SubSeq(sorted, 1, Len(sorted) - 1), job),
                sorted[Len(sorted)])

RECURSIVE InsertDescending(_, _)
InsertDescending(sorted, job) ==
    IF Len(sorted) = 0 THEN <<job>>
    ELSE IF SortKey(sorted[Len(sorted)]) >= SortKey(job) THEN Append(sorted, job)
    ELSE Append(InsertDescending(SubSeq(sorted, 1, Len(sorted) - 1), job),
                sorted[Len(sorted)])

\* a sort that keeps the best record of two neighbours only
SortKeepsFirst(jobs) == IF Len(jobs) = 0 THEN <<>> ELSE <<jobs[1]>>

RECURSIVE SortDescending(_)
SortDescending(jobs) ==
    IF Len(jobs) = 0 THEN <<>>
    ELSE InsertDescending(SortDescending(SubSeq(jobs, 1, Len(jobs) - 1)), jobs[Len(jobs)])

\* a None among the text fields of a candidate: str + None raises TypeError
DocumentRaises(jobs) == \E i \in 1..Len(jobs) : jobs[i].location_k = "None"

(***************************************************************************)
(* calculate_relevance_scores(jobs, user_profile); sims is the vectorizer's *)
(* answer, used when the vectorizer is reached and does not raise.         *)
(***************************************************************************)
calculate_relevance_scores(jobs, user_profile, sims) ==
    IF Len(jobs) = 0 \/ Falsy(user_profile) THEN Return(jobs)
    ELSE IF user_profile.demographics_k = "None" THEN Raise("AttributeError")
    ELSE IF user_profile.preferences_k = "None" THEN Raise("AttributeError")
    ELSE IF profile_terms(user_profile) = {} THEN Return(ZeroAll(jobs))
    ELSE IF DocumentRaises(jobs) THEN Raise("TypeError")
    ELSE LET tried == IF Vocabulary(jobs, profile_terms(user_profile)) = {}
                      THEN RaiseWith("ValueError", jobs)
                      ELSE ScoreLoop(jobs, sims, user_profile, 1)
         IN Return(SortDescending(IF tried.kind = "raise" THEN ZeroAll(tried.jobs)
                                  ELSE tried.value))

\* the scorer works in place: the list it returns is the list it was given
InputAfterScoring(jobs, user_profile, sims) ==
    LET outcome == calculate_relevance_scores(jobs, user_profile, sims)
    IN IF outcome.kind = "return" THEN outcome.value ELSE jobs

(***************************************************************************)
(* State of one call of the scorer or of the re-ranker, and the state the  *)
(* orchestrator works on: the users collection, Redis and one request.     *)
(***************************************************************************)
VARIABLES
    pc,        \* "idle", "post" (before requests.post), "sleep" (before time.sleep), "done"
    call,      \* the call under way: its function and arguments
    attempt,   \* call_gemini_api's loop variable
    http_log,  \* the HTTP attempts and backoff waits of the call, in order
    api_ret,   \* the outcome of call_gemini_api
    ret,       \* the outcome of the call
    jobs_after,  \* the list passed as jobs, and its records, as the call has left them
    users_collection,       \* MongoDB: user_id -> profile document or None
    redis,                  \* Redis: key -> entry
    epc,                    \* generate_job_recommendations: "idle", "profile", "pipeline", "store", "done"
    eargs,                  \* its arguments
    user_profile_local,     \* its local user_profile (None outside the call)
    final_recommendations,  \* its local final_recommendations ([] outside the call)
    result,                 \* its outcome
    stale_hit,              \* the request read an entry written before an update of the profile
    stages,                 \* the stages the request has gone through, in order
    outdated,               \* the profile the request works on was replaced while it ran:
                            \* "no", "updated", "cleared" (updated, then the user's caches cleared)
    nrequests,              \* calls of generate_job_recommendations so far
    nupdates,               \* calls of parse_query so far
    spc,                    \* fetch_from_all_sources: "idle", "interests", "books", "movies", "done"
    sargs,                  \* its argument user_profile
    invoked,                \* the connectors it has called, in order
    active_sources,         \* its local active_sources
    all_results,            \* its local all_results
    sret,                   \* its outcome
    kcalls,                 \* two calls of generate_job_recommendations: their arguments
    kkeys                   \* and the cache keys line 72 builds for them

call_vars == <<pc, call, attempt, http_log, api_ret, ret, jobs_after>>

engine_vars == <<users_collection, redis, epc, eargs, user_profile_local,
                 final_recommendations, result, stale_hit, stages, outdated, nrequests, nupdates>>

source_vars == <<spc, sargs, invoked, active_sources, all_results, sret>>

key_vars == <<kcalls, kkeys>>

vars == <<call_vars, engine_vars, source_vars, key_vars>>

Pending == [kind |-> "pending"]

NoCall == [fn |-> "none"]

Limits == 0..MaxLimit

\* what requests.post / raise_for_status / response.json can raise: a
\* requests.exceptions.RequestException (connection error, timeout, HTTP
\* status), a ValueError, or any other Exception
HttpErrors == {"RequestException", "ValueError", "Exception"}

PostEvent(n, out) == [ev |-> "post", n |-> n, out |-> out]
SleepEvent(secs) == [ev |-> "sleep", n |-> secs, out |-> "-"]

RECURSIVE Pow(_, _)
Pow(b, e) == IF e = 0 THEN 1 ELSE b * Pow(b, e - 1)

CallInit ==
    /\ pc = "idle"
    /\ call = NoCall
    /\ attempt = 0
    /\ http_log = <<>>
    /\ api_ret = Pending
    /\ ret = Pending
    /\ jobs_after = <<>>

(***************************************************************************)
(* refine_recommendations, lines 43-113: the empty-list guard, top_jobs    *)
(* and the prompt; the call then enters call_gemini_api's loop.            *)
(***************************************************************************)
\* refine_recommendations without the guard of lines 43-45
RefineBeginUnguarded ==
    /\ pc = "idle"
    /\ \E jobs \in JobLists, user_profile \in Profiles, limit \in Limits :
          /\ call' = [fn |-> "refine_recommendations", jobs |-> jobs,
                      user_profile |-> user_profile, limit |-> limit]
          /\ jobs_after' = jobs
          /\ IF BuildPrompt(user_profile).kind = "raise"
             THEN pc' = "done" /\ ret' = BuildPrompt(user_profile)
             ELSE pc' = "post" /\ ret' = Pending
    /\ attempt' = 0
    /\ http_log' = <<>>
    /\ api_ret' = Pending
    /\ UNCHANGED <<engine_vars, source_vars, key_vars>>

RefineBegin ==
    /\ pc = "idle"
    /\ \E jobs \in JobLists, user_profile \in Profiles, limit \in Limits :
          /\ call' = [fn |-> "refine_recommendations", jobs |-> jobs,
                      user_profile |-> user_profile, limit |-> limit]
          /\ jobs_after' = jobs
          /\ IF Len(jobs) = 0
             THEN pc' = "done" /\ ret' = Return(<<>>)
             ELSE IF BuildPrompt(user_profile).kind = "raise"
                  THEN pc' = "done" /\ ret' = BuildPrompt(user_profile)
                  ELSE pc' = "post" /\ ret' = Pending
    /\ attempt' = 0
    /\ http_log' = <<>>
    /\ api_ret' = Pending
    /\ UNCHANGED <<engine_vars, source_vars, key_vars>>

(***************************************************************************)
(* call_gemini_api, lines 19-28: one pass of the loop whose HTTP call      *)
(* raises exc.  A RequestException is caught: before the last attempt the  *)
(* loop goes on to sleep, on the last attempt RuntimeError is raised.  Any *)
(* other exception leaves call_gemini_api at once.  What leaves            *)
(* call_gemini_api meets refine_recommendations' except clause.            *)
(***************************************************************************)
ApiRaises(exc) ==
    /\ api_ret' = Raise(exc)
    /\ ret' = Except(Raise(exc), top_jobs_of(call.jobs), call.limit)
    /\ pc' = "done"

\* a retry that goes straight to the next attempt, without the backoff wait
HttpFailNoBackoff(exc) ==
    /\ pc = "post"
    /\ http_log' = Append(http_log, PostEvent(attempt, exc))
    /\ IF exc = "RequestException"
       THEN IF attempt < retries - 1
            THEN pc' = "post" /\ attempt' = attempt + 1 /\ UNCHANGED <<api_ret, ret>>
            ELSE ApiRaises("RuntimeError") /\ UNCHANGED attempt
       ELSE ApiRaises(exc) /\ UNCHANGED attempt
    /\ UNCHANGED <<call, jobs_after, engine_vars, source_vars, key_vars>>

HttpFail(exc) ==
    /\ pc = "post"
    /\ http_log' = Append(http_log, PostEvent(attempt, exc))
    /\ IF exc = "RequestException"
       THEN IF attempt < retries - 1
            THEN pc' = "sleep" /\ UNCHANGED <<api_ret, ret>>
            ELSE ApiRaises("RuntimeError")
       ELSE ApiRaises(exc)
    /\ UNCHANGED <<call, attempt, jobs_after, engine_vars, source_vars, key_vars>>

\* call_gemini_api, line 26: time.sleep(backoff ** attempt), then the next pass
Sleep ==
    /\ pc = "sleep"
    /\ http_log' = Append(http_log, SleepEvent(Pow(backoff, attempt)))
    /\ attempt' = attempt + 1
    /\ pc' = "post"
    /\ UNCHANGED <<call, api_ret, ret, jobs_after, engine_vars, source_vars, key_vars>>

(***************************************************************************)
(* call_gemini_api, lines 21-23, returning data, and the rest of           *)
(* refine_recommendations (lines 118-152) on that data.                    *)
(***************************************************************************)
HttpOk(data) ==
    /\ pc = "post"
    /\ http_log' = Append(http_log, PostEvent(attempt, "ok"))
    /\ api_ret' = Return(data)
    /\ ret' = Except(TryBody(data, top_jobs_of(call.jobs), call.limit),
                     top_jobs_of(call.jobs), call.limit)
    /\ jobs_after' = InputAfterTry(data, top_jobs_of(call.jobs), call.limit, call.jobs)
    /\ pc' = "done"
    /\ UNCHANGED <<call, attempt, engine_vars, source_vars, key_vars>>

(***************************************************************************)
(* One call of calculate_relevance_scores.                                 *)
(***************************************************************************)
ScoreCall ==
    /\ pc = "idle"
    /\ \E jobs \in CandidateLists, user_profile \in ScorerProfiles :
          \E sims \in Similarities(jobs, profile_terms(user_profile)) :
              /\ call' = [fn |-> "calculate_relevance_scores", jobs |-> jobs,
                          user_profile |-> user_profile, limit |-> 0,
                          scaled_scores |-> sims]
              /\ ret' = calculate_relevance_scores(jobs, user_profile, sims)
              /\ jobs_after' = InputAfterScoring(jobs, user_profile, sims)
    /\ pc' = "done"
    /\ UNCHANGED <<attempt, http_log, api_ret, engine_vars, source_vars, key_vars>>

(***************************************************************************)
(* The orchestrator (app/recommendation_engine.py), the profile store      *)
(* (app/database.py) and the profile endpoints of app/main.py.             *)
(*                                                                         *)
(* A Redis key is the sequence of its ":"-separated segments.  An entry    *)
(* has present, value (a JSON text) and old; old is history, not data: it  *)
(* is set on the entries of a user that are in Redis when parse_query      *)
(* saves a profile of that user.  TTL expiry is the action Expire.         *)
(***************************************************************************)
Users == {"alice", "bob"}

\* the query and location arguments: None or a string
QueryArgs == {"None", "python"}
LocationArgs == {"None", "berlin"}

EngineLimits == 1..MaxSmall

\* the documents parse_query saves
ProfileDocs == {FullProfile, NoneDemographicsProfile}

\* lines 71-72: f"job_recommendations:{user_id}:{query or 'auto'}:{location or 'any'}:{limit}";
\* None and "" are the falsy arguments
cache_key(user_id, query, location, limit) ==
    <<"job_recommendations", user_id,
      IF query \in {"None", ""} THEN "auto" ELSE query,
      IF location \in {"None", ""} THEN "any" ELSE location,
      limit>>

\* line 43, and database.py lines 81, 104, 118, 150
profile_key(user_id) == <<"user_profile", user_id>>

RedisKeys ==
    {cache_key(u, q, l, n) : u \in Users, q \in QueryArgs, l \in LocationArgs, n \in EngineLimits}
    \cup {profile_key(u) : u \in Users}

Absent == [present |-> FALSE]

json_dumps(v) == [json |-> v]
loads(text) == text.json

setex(r, key, value) == [r EXCEPT ![key] = [present |-> TRUE, value |-> value, old |-> FALSE]]

delete(r, ks) == [k \in DOMAIN r |-> IF k \in ks THEN Absent ELSE r[k]]

\* redis_client.keys(f"{prefix}:{user_id}:*")
keys(r, prefix, user_id) ==
    {k \in DOMAIN r : r[k].present /\ Len(k) > 2 /\ k[1] = prefix /\ k[2] = user_id}

MarkOld(r, user_id) ==
    [k \in DOMAIN r |-> IF r[k].present /\ k[2] = user_id
                        THEN [r[k] EXCEPT !.old = TRUE] ELSE r[k]]

(***************************************************************************)
(* database.save_user_profile, lines 67-89.  update_one({"$set": ...},     *)
(* upsert=True) writes the top-level keys of user_profile into the stored  *)
(* document and keeps its other keys; the cache gets json.dumps of the     *)
(* argument.  A PyMongoError (mongo_up = FALSE) is caught before either.   *)
(***************************************************************************)
Merge(stored, given) ==
    IF stored.py = "None" THEN given
    ELSE LET with_interests ==
                 IF given.interests_k = "absent" THEN stored
                 ELSE [stored EXCEPT !.interests_k = given.interests_k,
                                     !.interests = given.interests]
             with_demographics ==
                 IF given.demographics_k = "absent" THEN with_interests
                 ELSE [with_interests EXCEPT !.demographics_k = given.demographics_k,
                                             !.skills_k = given.skills_k,
                                             !.skills = given.skills,
                                             !.industries_k = given.industries_k,
                                             !.industries = given.industries]
         IN IF given.preferences_k = "absent" THEN with_demographics
            ELSE [with_demographics EXCEPT !.preferences_k = given.preferences_k,
                                           !.role_k = given.role_k,
                                           !.role = given.role,
                                           !.location_k = given.location_k,
                                           !.location = given.location,
                                           !.remote = given.remote,
                                           !.hybrid = given.hybrid,
                                           !.companies = given.companies]

save_user_profile(r, db, user_id, user_profile, mongo_up) ==
    IF ~mongo_up THEN [value |-> FALSE, db |-> db, redis |-> r]
    ELSE [value |-> TRUE,
          db |-> [db EXCEPT ![user_id] = Merge(@, user_profile)],
          redis |-> setex(MarkOld(r, user_id), profile_key(user_id),
                          json_dumps(user_profile))]

(***************************************************************************)
(* database.get_user_profile, lines 102-129: Redis first, then MongoDB; a  *)
(* document found is stored in Redis; a PyMongoError gives None.           *)
(***************************************************************************)
get_user_profile(r, db, user_id, mongo_up) ==
    IF r[profile_key(user_id)].present
    THEN [profile |-> loads(r[profile_key(user_id)].value), redis |-> r,
          old |-> r[profile_key(user_id)].old]
    ELSE IF ~mongo_up \/ db[user_id].py = "None"
         THEN [profile |-> NoneProfile, redis |-> r, old |-> FALSE]
         ELSE [profile |-> db[user_id],
               redis |-> setex(r, profile_key(user_id), json_dumps(db[user_id])),
               old |-> FALSE]

\* a lookup that caches whatever the store answered, None included
get_cached_user_profile_caching_none(r, db, user_id, mongo_up) ==
    IF r[profile_key(user_id)].present
    THEN [profile |-> loads(r[profile_key(user_id)].value), redis |-> r,
          old |-> r[profile_key(user_id)].old]
    ELSE LET got == get_user_profile(r, db, user_id, mongo_up)
         IN [got EXCEPT !.redis = setex(got.redis, profile_key(user_id),
                                        json_dumps(got.profile))]

\* recommendation_engine.get_cached_user_profile, lines 43-55
get_cached_user_profile(r, db, user_id, mongo_up) ==
    IF r[profile_key(user_id)].present
    THEN [profile |-> loads(r[profile_key(user_id)].value), redis |-> r,
          old |-> r[profile_key(user_id)].old]
    ELSE LET got == get_user_profile(r, db, user_id, mongo_up)
         IN IF Falsy(got.profile) THEN got
            ELSE [got EXCEPT !.redis = setex(got.redis, profile_key(user_id),
                                             json_dumps(got.profile))]

\* line 89: location if location else user_profile.get("preferences", {}).get("location", "USA")
search_location(location, user_profile) ==
    IF location # "None" THEN Return(location)
    ELSE IF user_profile.preferences_k = "None" THEN Raise("AttributeError")
    ELSE IF user_profile.preferences_k = "absent" \/ user_profile.location_k = "absent"
         THEN Return("USA")
    ELSE IF user_profile.location_k = "None" THEN Return("None")
    ELSE Return(user_profile.location)

\* fetch_combined_jobs(search_query, search_location, limit * 2): the merged
\* answers of the connectors, at most n records
EngineJob ==
    [Candidate({"python"}, "str", {"berlin"}, {}, "linkedin", "week") EXCEPT !.url = 1]

fetch_combined_jobs(n) == {jobs \in {<<>>, <<EngineJob>>} : Len(jobs) <= n}

\* what call_gemini_api does within a request: it raises, or returns an
\* answer that ranks candidate 1, or an answer without a JSON array
ApiOutcomes ==
    {Raise("RuntimeError"),
     Return(TextData(Dumps(<<[job_index |-> 1, explanation |-> "x", relevance_score |-> 80]>>))),
     Return(TextData(<<Prose>>))}

\* refine_recommendations as a function of call_gemini_api's outcome
refine_recommendations(jobs, user_profile, limit, api) ==
    IF Len(jobs) = 0 THEN Return(<<>>)
    ELSE IF BuildPrompt(user_profile).kind = "raise" THEN BuildPrompt(user_profile)
    ELSE Except(IF api.kind = "raise" THEN api
                ELSE TryBody(api.value, top_jobs_of(jobs), limit),
                top_jobs_of(jobs), limit)

NoArgs == [user_id |-> "none", query |-> "None", location |-> "None", limit |-> 0]

EngineInit ==
    /\ users_collection = [u \in Users |-> NoneProfile]
    /\ redis = [k \in RedisKeys |-> Absent]
    /\ epc = "idle"
    /\ eargs = NoArgs
    /\ user_profile_local = NoneProfile
    /\ final_recommendations = <<>>
    /\ result = Pending
    /\ stale_hit = FALSE
    /\ stages = <<>>
    /\ outdated = "no"
    /\ nrequests = 0
    /\ nupdates = 0

(***************************************************************************)
(* generate_job_recommendations, lines 71-77: the call and its look-up in  *)
(* the recommendation cache.  redis_up = FALSE: Redis cannot be reached    *)
(* and redis_client.get raises redis.ConnectionError.                      *)
(***************************************************************************)
\* a call that looks the key up but computes the answer anew on a hit
RequestRecomputes(user_id, query, location, limit, redis_up) ==
    /\ epc \in {"idle", "done"}
    /\ nrequests < MaxRequests
    /\ nrequests' = nrequests + 1
    /\ eargs' = [user_id |-> user_id, query |-> query, location |-> location, limit |-> limit]
    /\ UNCHANGED <<user_profile_local, final_recommendations>>
    /\ IF ~redis_up
       THEN /\ epc' = "done" /\ result' = Raise("ConnectionError")
            /\ stages' = <<"cache_error">>
       ELSE /\ epc' = "profile" /\ result' = Pending
            /\ stages' = <<"cache_miss">>
    /\ stale_hit' = FALSE
    /\ outdated' = "no"
    /\ UNCHANGED <<users_collection, redis, nupdates, call_vars, source_vars, key_vars>>

Request(user_id, query, location, limit, redis_up) ==
    /\ epc \in {"idle", "done"}
    /\ nrequests < MaxRequests
    /\ nrequests' = nrequests + 1
    /\ eargs' = [user_id |-> user_id, query |-> query, location |-> location, limit |-> limit]
    /\ UNCHANGED <<user_profile_local, final_recommendations>>
    /\ LET cache_entry == redis[cache_key(user_id, query, location, limit)]
       IN IF ~redis_up
          THEN /\ epc' = "done" /\ result' = Raise("ConnectionError") /\ stale_hit' = FALSE
               /\ stages' = <<"cache_error">>
          ELSE IF cache_entry.present
               THEN /\ epc' = "done"
                    /\ result' = Return(loads(cache_entry.value))
                    /\ stale_hit' = cache_entry.old
                    /\ stages' = <<"cache_hit">>
               ELSE /\ epc' = "profile" /\ result' = Pending /\ stale_hit' = FALSE
                    /\ stages' = <<"cache_miss">>
    /\ outdated' = "no"
    /\ UNCHANGED <<users_collection, redis, nupdates, call_vars, source_vars, key_vars>>

\* a profile lookup whose empty answer does not end the call
GetProfileUnguarded(redis_up, mongo_up) ==
    /\ epc = "profile"
    /\ IF ~redis_up
       THEN /\ epc' = "done"
            /\ result' = Raise("ConnectionError")
            /\ stages' = Append(stages, "profile_error")
            /\ UNCHANGED <<redis, user_profile_local, stale_hit>>
       ELSE LET got == get_cached_user_profile(redis, users_collection, eargs.user_id, mongo_up)
            IN /\ redis' = got.redis
               /\ stale_hit' = got.old
               /\ epc' = "pipeline"
               /\ user_profile_local' = got.profile
               /\ stages' = Append(stages, IF Falsy(got.profile) THEN "profile_none"
                                           ELSE "profile")
               /\ UNCHANGED result
    /\ UNCHANGED <<users_collection, eargs, final_recommendations, outdated,
                   nrequests, nupdates, call_vars, source_vars, key_vars>>

\* lines 80-83: get_cached_user_profile, and the empty answer without a profile
GetProfile(redis_up, mongo_up) ==
    /\ epc = "profile"
    /\ IF ~redis_up
       THEN /\ epc' = "done"
            /\ result' = Raise("ConnectionError")
            /\ stages' = Append(stages, "profile_error")
            /\ UNCHANGED <<redis, user_profile_local, stale_hit>>
       ELSE LET got == get_cached_user_profile(redis, users_collection, eargs.user_id, mongo_up)
            IN /\ redis' = got.redis
               /\ stale_hit' = got.old
               /\ IF Falsy(got.profile)
                  THEN /\ epc' = "done" /\ result' = Return(<<>>)
                       /\ stages' = Append(stages, "profile_none")
                       /\ UNCHANGED user_profile_local
                  ELSE /\ epc' = "pipeline" /\ user_profile_local' = got.profile
                       /\ stages' = Append(stages, "profile")
                       /\ UNCHANGED result
    /\ UNCHANGED <<users_collection, eargs, final_recommendations, outdated,
                   nrequests, nupdates, call_vars, source_vars, key_vars>>

(***************************************************************************)
(* lines 86-98: query, location, fetch_combined_jobs, the scorer and the   *)
(* re-ranker, none inside a try.  generate_search_query reads every field  *)
(* through "or" defaults and does not raise; its text only reaches         *)
(* fetch_combined_jobs, whose answer raw_jobs is an input here.            *)
(***************************************************************************)
Pipeline(raw_jobs, sims, api) ==
    /\ epc = "pipeline"
    /\ LET loc == search_location(eargs.location, user_profile_local)
           scored_jobs == calculate_relevance_scores(raw_jobs, user_profile_local, sims)
           out == IF loc.kind = "raise" THEN loc
                  ELSE IF scored_jobs.kind = "raise" THEN scored_jobs
                  ELSE refine_recommendations(scored_jobs.value, user_profile_local,
                                              eargs.limit, api)
           fetched == IF Len(raw_jobs) = 0 THEN "fetch_empty" ELSE "fetch"
       IN /\ stages' = stages \o
                        (IF loc.kind = "raise" THEN <<"query", "location_error">>
                         ELSE IF scored_jobs.kind = "raise"
                              THEN <<"query", fetched, "score_error">>
                         ELSE IF out.kind = "raise"
                              THEN <<"query", fetched, "score", "refine_error">>
                         ELSE <<"query", fetched, "score", "refine">>)
          /\ IF out.kind = "raise"
             THEN /\ epc' = "done" /\ result' = out
                  /\ user_profile_local' = NoneProfile
                  /\ outdated' = "no"
                  /\ UNCHANGED final_recommendations
             ELSE /\ epc' = "store" /\ final_recommendations' = out.value
                  /\ UNCHANGED <<result, user_profile_local, outdated>>
    /\ UNCHANGED <<users_collection, redis, eargs, stale_hit,
                   nrequests, nupdates, call_vars, source_vars, key_vars>>

\* lines 101-103: the result is cached, then returned
Store(redis_up) ==
    /\ epc = "store"
    /\ epc' = "done"
    /\ user_profile_local' = NoneProfile
    /\ final_recommendations' = <<>>
    /\ outdated' = "no"
    /\ IF ~redis_up
       THEN /\ result' = Raise("ConnectionError")
            /\ stages' = Append(stages, "cache_set_error")
            /\ UNCHANGED redis
       ELSE /\ stages' = Append(stages, "cache_set")
            /\ redis' = setex(redis,
                              cache_key(eargs.user_id, eargs.query, eargs.location, eargs.limit),
                              json_dumps(final_recommendations))
            /\ result' = Return(final_recommendations)
    /\ UNCHANGED <<users_collection, eargs, stale_hit, nrequests, nupdates, call_vars, source_vars, key_vars>>

(***************************************************************************)
(* main.parse_query, lines 53-65, for a parsed profile of user_id:         *)
(* save_user_profile (database.py lines 67-86: the document, then the      *)
(* profile key in Redis), then main.clear_user_cache (lines 122-133: the   *)
(* keys "recommendations:{user_id}:*"; the lru_cache it also clears is     *)
(* read by main.get_user alone, never by the orchestrator).                *)
(***************************************************************************)
ParseQuery(user_id, parsed_data) ==
    /\ nupdates < MaxUpdates
    /\ nupdates' = nupdates + 1
    /\ LET saved == save_user_profile(redis, users_collection, user_id, parsed_data, TRUE)
       IN /\ users_collection' = saved.db
          /\ redis' = delete(saved.redis, keys(saved.redis, "recommendations", user_id))
    /\ outdated' = IF epc \in {"pipeline", "store"} /\ eargs.user_id = user_id
                    THEN IF parsed_data # user_profile_local THEN "updated" ELSE "no"
                    ELSE outdated
    /\ UNCHANGED <<epc, eargs, user_profile_local, final_recommendations, result,
                   stale_hit, stages, nrequests, call_vars, source_vars, key_vars>>

\* recommendation_engine.clear_user_job_cache, lines 114-119
ClearUserJobCache(user_id) ==
    /\ redis' = delete(redis, keys(redis, "job_recommendations", user_id)
                              \cup {profile_key(user_id)})
    /\ outdated' = IF outdated = "updated" /\ eargs.user_id = user_id THEN "cleared"
                    ELSE outdated
    /\ UNCHANGED <<users_collection, epc, eargs, user_profile_local,
                   final_recommendations, result, stale_hit, stages, nrequests, nupdates, call_vars, source_vars, key_vars>>

\* database.delete_user_profile, lines 143-152, for a user that has a document
DeleteUserProfile(user_id) ==
    /\ users_collection[user_id].py # "None"
    /\ users_collection' = [users_collection EXCEPT ![user_id] = NoneProfile]
    /\ redis' = delete(redis, {profile_key(user_id)})
    /\ UNCHANGED <<epc, eargs, user_profile_local, final_recommendations, result,
                   stale_hit, stages, outdated, nrequests, nupdates, call_vars, source_vars, key_vars>>

\* database.save_user_profile(user_profile) for a document of user_id
SaveUserProfile(user_id, user_profile, mongo_up) ==
    /\ LET saved == save_user_profile(redis, users_collection, user_id, user_profile, mongo_up)
       IN /\ users_collection' = saved.db
          /\ redis' = saved.redis
    /\ UNCHANGED <<epc, eargs, user_profile_local, final_recommendations, result,
                   stale_hit, stages, outdated, nrequests, nupdates, call_vars, source_vars, key_vars>>

\* database.get_user_profile(user_id)
GetUserProfile(user_id, mongo_up) ==
    /\ redis' = get_user_profile(redis, users_collection, user_id, mongo_up).redis
    /\ UNCHANGED <<users_collection, epc, eargs, user_profile_local, final_recommendations,
                   result, stale_hit, stages, outdated, nrequests, nupdates,
                   call_vars, source_vars, key_vars>>

\* the TTL of an entry (CACHE_EXPIRATION seconds) runs out
Expire(key) ==
    /\ redis[key].present
    /\ redis' = delete(redis, {key})
    /\ UNCHANGED <<users_collection, epc, eargs, user_profile_local,
                   final_recommendations, result, stale_hit, stages, outdated, nrequests, nupdates, call_vars, source_vars, key_vars>>

(***************************************************************************)
(* The aggregator (app/data_sources/manager.py) and its connectors         *)
(* (web_search.py, interest_sources.py).                                   *)
(*                                                                         *)
(* A connector's HTTP exchange is an input: kind "ok" with the items of    *)
(* the payload, "http_error" (requests raises a RequestException),         *)
(* "malformed" (the body parses to JSON that is not an object, so that     *)
(* data.get raises AttributeError), "api_error" (web search: the payload   *)
(* has an "error" key) or "no_key" (books, movies: the API key is empty).  *)
(***************************************************************************)
InterestWords == {"Books", "cinema", "bookstore", "AI"}

\* str.lower() on the words of the model
Lower(w) ==
    CASE w = "Books" -> "books"
      [] w = "AI" -> "ai"
      [] OTHER -> w

\* manager.py lines 7-12
source_mapping ==
    [books |-> <<"books", "reading", "literature">>,
     movies |-> <<"movies", "films", "cinema">>,
     tech |-> <<"technology", "programming", "coding", "software", "AI",
                "artificial intelligence">>]

get_data_sources_for_interests(interests) ==
    LET interests_lower == {Lower(interests[i]) : i \in 1..Len(interests)}
    IN {source \in DOMAIN source_mapping :
           \E k \in 1..Len(source_mapping[source]) :
               Lower(source_mapping[source][k]) \in interests_lower}

\* the profiles of the aggregator: every list of interests, and interests
\* absent, None or a string; None as the profile
SourceProfiles ==
    {[EmptyProfile EXCEPT !.interests_k = "list", !.interests = interests] :
        interests \in SeqsUpTo(InterestWords, MaxInterests)}
    \cup {EmptyProfile, NoneProfile, NoneFieldsProfile,
          [EmptyProfile EXCEPT !.interests_k = "str"]}

\* the links of the model: none, a Google Books page, a TMDB page
GoogleBooksLink == "books.google/1"
TmdbLink(id) == IF id = 1 THEN "themoviedb.org/movie/1" ELSE "themoviedb.org/movie/2"

Response(kind, items) == [kind |-> kind, items |-> items]

Failures(kinds) == {Response(kind, <<>>) : kind \in kinds}

\* organic_results of SerpAPI
WebItems == {[title |-> "page", link |-> link] : link \in {"", GoogleBooksLink, TmdbLink(1)}}

\* items of Google Books: infoLink "" stands for a volume without infoLink
BookItems == {[title |-> "book", infoLink |-> link] : link \in {"", GoogleBooksLink}}

\* results of TMDB: id 0 stands for a result without id
MovieItems == {[title |-> "movie", id |-> id] : id \in {0, 1}}

WebResponses ==
    {Response("ok", items) : items \in SeqsUpTo(WebItems, MaxResults)}
    \cup Failures({"http_error", "malformed", "api_error"})

BookResponses ==
    {Response("ok", items) : items \in SeqsUpTo(BookItems, MaxResults)}
    \cup Failures({"http_error", "malformed", "no_key"})

MovieResponses ==
    {Response("ok", items) : items \in SeqsUpTo(MovieItems, MaxResults)}
    \cup Failures({"http_error", "malformed", "no_key"})

Result(title, link, source) == [title |-> title, link |-> link, source |-> source]

\* web_search.py lines 15-54: every exception is caught; the page content
\* that fetch_content_for_results adds to each record is left out
fetch_search_results(response) ==
    IF response.kind = "ok"
    THEN Return([i \in 1..Len(response.items) |->
                    Result(response.items[i].title, response.items[i].link, "web_search")])
    ELSE Return(<<>>)

\* interest_sources.py lines 8-49: only requests' RequestException is caught
fetch_books_data(response) ==
    CASE response.kind = "no_key" -> Return(<<>>)
      [] response.kind = "http_error" -> Return(<<>>)
      [] response.kind = "malformed" -> Raise("AttributeError")
      [] OTHER ->
            Return([i \in 1..Len(response.items) |->
                       Result(response.items[i].title, response.items[i].infoLink, "books")])

\* interest_sources.py lines 51-91
fetch_movies_data(response, limit) ==
    CASE response.kind = "no_key" -> Return(<<>>)
      [] response.kind = "http_error" -> Return(<<>>)
      [] response.kind = "malformed" -> Raise("AttributeError")
      [] OTHER ->
            Return([i \in 1..Min(limit, Len(response.items)) |->
                       Result(response.items[i].title,
                              IF response.items[i].id # 0 THEN TmdbLink(response.items[i].id)
                              ELSE "", "movies")])

SourcesInit ==
    /\ spc = "idle"
    /\ sargs = NoneProfile
    /\ invoked = <<>>
    /\ active_sources = {}
    /\ all_results = <<>>
    /\ sret = Pending

\* where fetch_from_all_sources goes after the step at `at`: lines 49-59
AfterStep(at, active) ==
    IF at = "web_search" /\ "books" \in active THEN "books"
    ELSE IF at \in {"web_search", "books"} /\ "movies" \in active THEN "movies"
    ELSE "done"

\* lines 34-47 with every interest-gated source taken as active
FetchBeginUngated(user_profile, response) ==
    /\ spc = "idle"
    /\ sargs' = user_profile
    /\ invoked' = <<"web_search">>
    /\ all_results' = fetch_search_results(response).value
    /\ active_sources' = DOMAIN source_mapping
    /\ spc' = "books"
    /\ sret' = Pending
    /\ UNCHANGED <<call_vars, engine_vars, key_vars>>

\* lines 34-47: the web search, then the interests and the active sources
FetchBegin(user_profile, response) ==
    /\ spc = "idle"
    /\ sargs' = user_profile
    /\ invoked' = <<"web_search">>
    /\ all_results' = fetch_search_results(response).value
    /\ IF user_profile.py = "None"
       THEN /\ active_sources' = {}
            /\ spc' = "done"
            /\ sret' = Raise("AttributeError")
       ELSE LET interests == IF user_profile.interests_k = "list"
                             THEN user_profile.interests ELSE <<>>
                active == get_data_sources_for_interests(interests)
            IN /\ active_sources' = active
               /\ spc' = AfterStep("web_search", active)
               /\ sret' = IF AfterStep("web_search", active) = "done"
                          THEN Return(fetch_search_results(response).value)
                          ELSE Pending
    /\ UNCHANGED <<call_vars, engine_vars, key_vars>>

\* the end of a connector step whose connector gave `results`
Extend(at, results) ==
    /\ invoked' = Append(invoked, at)
    /\ IF results.kind = "raise"
       THEN /\ spc' = "done"
            /\ sret' = results
            /\ UNCHANGED all_results
       ELSE /\ all_results' = all_results \o results.value
            /\ spc' = AfterStep(at, active_sources)
            /\ sret' = IF AfterStep(at, active_sources) = "done"
                       THEN Return(all_results \o results.value)
                       ELSE Pending
    /\ UNCHANGED <<sargs, active_sources, call_vars, engine_vars, key_vars>>

\* lines 49-51
FetchBooks(response) ==
    /\ spc = "books"
    /\ Extend("books", fetch_books_data(response))

\* lines 53-55
FetchMovies(response) ==
    /\ spc = "movies"
    /\ Extend("movies", fetch_movies_data(response, InterestLimit))

(***************************************************************************)
(* The cache key of two calls of generate_job_recommendations (line 72),   *)
(* for every pair of argument lists.                                       *)
(***************************************************************************)
\* query and location: omitted (None), "", a word, and the words the key
\* puts in the place of an omitted argument
KeyQueries == {"None", "", "python", "auto"}
KeyLocations == {"None", "", "berlin", "any"}

KeyCalls ==
    [user_id : Users, query : KeyQueries, location : KeyLocations, limit : EngineLimits]

KeysInit ==
    /\ kcalls = <<NoArgs, NoArgs>>
    /\ kkeys = <<<<>>, <<>>>>

CacheKeys(a, b) ==
    /\ kcalls = <<NoArgs, NoArgs>>
    /\ kcalls' = <<a, b>>
    /\ kkeys' = <<cache_key(a.user_id, a.query, a.location, a.limit),
                  cache_key(b.user_id, b.query, b.location, b.limit)>>
    /\ UNCHANGED <<call_vars, engine_vars, source_vars>>

Init == CallInit /\ EngineInit /\ SourcesInit /\ KeysInit

Next ==
    \/ ScoreCall
    \/ RefineBegin
    \/ \E exc \in HttpErrors : HttpFail(exc)
    \/ Sleep
    \/ \E data \in Datas : HttpOk(data)

Spec == Init /\ [][Next]_vars

NextEngine ==
    \/ \E user_id \in Users, query \in QueryArgs, location \in LocationArgs,
          limit \in EngineLimits, redis_up \in BOOLEAN :
          Request(user_id, query, location, limit, redis_up)
    \/ \E redis_up \in BOOLEAN, mongo_up \in BOOLEAN : GetProfile(redis_up, mongo_up)
    \/ \E raw_jobs \in fetch_combined_jobs(eargs.limit * 2), api \in ApiOutcomes :
          \E sims \in Similarities(raw_jobs, profile_terms(user_profile_local)) :
              Pipeline(raw_jobs, sims, api)
    \/ \E redis_up \in BOOLEAN : Store(redis_up)
    \/ \E user_id \in Users, parsed_data \in ProfileDocs : ParseQuery(user_id, parsed_data)
    \/ \E user_id \in Users : ClearUserJobCache(user_id)
    \/ \E user_id \in Users : DeleteUserProfile(user_id)
    \/ \E key \in RedisKeys : Expire(key)

SpecEngine == Init /\ [][NextEngine]_vars

NextSources ==
    \/ \E user_profile \in SourceProfiles, response \in WebResponses :
          FetchBegin(user_profile, response)
    \/ \E response \in BookResponses : FetchBooks(response)
    \/ \E response \in MovieResponses : FetchMovies(response)

SpecSources == Init /\ [][NextSources]_vars

\* the documents save_user_profile is given: whole profiles and single keys
StoreDocs ==
    {FullProfile, NoneDemographicsProfile, InterestsOnlyProfile,
     [EmptyProfile EXCEPT !.preferences_k = "dict", !.role_k = "str", !.role = "nurse"]}

NextStore ==
    \/ \E user_id \in Users, user_profile \in StoreDocs, mongo_up \in BOOLEAN :
          SaveUserProfile(user_id, user_profile, mongo_up)
    \/ \E user_id \in Users, mongo_up \in BOOLEAN : GetUserProfile(user_id, mongo_up)
    \/ \E user_id \in Users : DeleteUserProfile(user_id)
    \/ \E key \in RedisKeys : Expire(key)

SpecStore == Init /\ [][NextStore]_vars

NextKeys == \E a \in KeyCalls, b \in KeyCalls : CacheKeys(a, b)

SpecKeys == Init /\ [][NextKeys]_vars

(***************************************************************************)
(* Properties of the re-ranker.                                            *)
(***************************************************************************)
RefineDone == call.fn = "refine_recommendations" /\ pc = "done"

\* the call went past the prompt and into the try block
EnteredTry == RefineDone /\ Len(http_log) > 0

HasKey(d, k) == k \in DOMAIN d

NoExplanation(records) == \A i \in 1..Len(records) : ~HasKey(records[i], "explanation")

FirstOfInput == Return(Take(call.jobs, call.limit))

\* C1: when the LLM call fails (call_gemini_api ends by raising, after three
\* network errors or because the HTTP call raised something else),
\* refine_recommendations returns the first `limit` input records, in input
\* order, none with an explanation, and does not raise.
C1_FallbackWhenLlmCallFails ==
    (EnteredTry /\ api_ret.kind = "raise")
        => /\ ret = FirstOfInput
           /\ NoExplanation(ret.value)

\* C2: no failure of the re-rank path (API error after the retries, an item
\* without a usable index, a malformed envelope, any other exception) leaves
\* refine_recommendations as an exception; each ends in the fallback result.
TryFailed ==
    \/ api_ret.kind = "raise"
    \/ api_ret.kind = "return"
       /\ TryBody(api_ret.value, top_jobs_of(call.jobs), call.limit).kind = "raise"

C2_RerankFailuresEndInFallback ==
    EnteredTry => /\ ret.kind = "return"
                  /\ TryFailed => ret = Fallback(top_jobs_of(call.jobs), call.limit)

\* C5: refine_recommendations returns at most min(limit, 20, len(candidates))
\* records.
C5_RerankBound ==
    (RefineDone /\ ret.kind = "return")
        => Len(ret.value) <= Min(call.limit, Min(20, Len(call.jobs)))

\* C6: an LLM item of the shape {"result_index": k, "explanation": "x",
\* "relevance_score": 80} with k within the truncated candidates yields the
\* record of candidate k-1 (0-based) with the explanation and the LLM score
\* attached.
ResultIndexItem(k) == [result_index |-> k, explanation |-> "x", relevance_score |-> 80]

Augmented(job, explanation, score) ==
    [title |-> job.title, relevance_score |-> job.relevance_score,
     explanation |-> explanation, gemini_relevance_score |-> score]

C6_ResultIndexRemap ==
    \A k \in 1..2 :
        (/\ RefineDone
         /\ api_ret = Return(TextData(Dumps(<<ResultIndexItem(k)>>)))
         /\ k <= Len(call.jobs)
         /\ call.limit >= 1)
            => ret = Return(<<Augmented(call.jobs[k], "x", 80)>>)

\* C7: on the success path the output is the LLM items whose index lies within
\* the truncated (first 20) candidates, in the LLM's order, cut off after
\* `limit` records; an out-of-range item (0, negative, beyond the truncated
\* length, 21 and above with more than 20 candidates) is skipped and the items
\* after it are still used.
AllIndexed(items) ==
    Len(items) >= 1 /\ \A i \in 1..Len(items) : HasKey(items[i], "job_index")

WithinTruncated(item, jobs) ==
    item.job_index >= 1 /\ item.job_index <= Min(20, Len(jobs))

ExpectedRanking(items, jobs, limit) ==
    LET kept == SelectSeq(items, LAMBDA item : WithinTruncated(item, jobs))
    IN [i \in 1..Min(limit, Len(kept)) |->
           Augmented(jobs[kept[i].job_index],
                     IF HasKey(kept[i], "explanation")
                     THEN kept[i].explanation ELSE "No explanation provided.",
                     IF HasKey(kept[i], "relevance_score")
                     THEN kept[i].relevance_score ELSE 0)]

AnsweredWith(items) ==
    \/ api_ret = Return(TextData(Dumps(items)))
    \/ api_ret = Return(TextData(<<Prose>> \o Dumps(items) \o <<Prose>>))

\* the JSON objects of an answer, in the order they stand in the text
ObjectsIn(text) ==
    LET objs == SelectSeq(text, LAMBDA tok : tok.t = "{}")
    IN [i \in 1..Len(objs) |-> objs[i].v]

C7_SuccessPathRanking ==
    (RefineDone /\ api_ret.kind = "return")
        => LET items == ObjectsIn(api_ret.value.text)
           IN (AllIndexed(items) /\ AnsweredWith(items))
                  => ret = Return(ExpectedRanking(items, call.jobs, call.limit))

FullItem(k) == [job_index |-> k, explanation |-> "x", relevance_score |-> 80]

\* 21 candidates, the LLM names 21 (beyond the truncated list) and then 1
C7_Witness ==
    /\ RefineDone
    /\ Len(call.jobs) = 21
    /\ call.limit = 2
    /\ AnsweredWith(<<FullItem(21), FullItem(1)>>)
    /\ ret = Return(<<Augmented(call.jobs[1], "x", 80)>>)

\* C8: when the response text holds no JSON array, or the extracted array does
\* not decode, refine_recommendations makes no further LLM call and returns
\* the first `limit` records of the truncated input, without `explanation`.
NoArrayTexts ==
    BrokenTexts \cup {Dumps(<<>>), <<Prose>> \o Dumps(<<>>) \o <<Prose>>}

AnsweredWithoutArray ==
    /\ api_ret.kind = "return"
    /\ api_ret.value.py = "dict"
    /\ api_ret.value.candidates_k = "list"
    /\ api_ret.value.parts_k = "list"
    /\ api_ret.value.text \in NoArrayTexts

OkPosts == {i \in 1..Len(http_log) : http_log[i].ev = "post" /\ http_log[i].out = "ok"}

C8_NoArrayEndsInFallback ==
    (RefineDone /\ AnsweredWithoutArray)
        => /\ ret = Return(Take(Take(call.jobs, 20), call.limit))
           /\ NoExplanation(ret.value)
           /\ OkPosts = {Len(http_log)}

\* an array whose objects lack the separating comma, two candidates, limit 1
C8_Witness ==
    /\ RefineDone
    /\ api_ret = Return(TextData(<<LBracket, SomeObj, SomeObj, RBracket>>))
    /\ Len(call.jobs) = 2
    /\ call.limit = 1
    /\ ret = Return(<<call.jobs[1]>>)

\* C9: call_gemini_api makes at most 3 HTTP attempts, one after another: a
\* network/timeout error on attempt 1 or 2 is followed by a backoff wait and
\* then the next attempt, a successful attempt ends the loop, an error of
\* another kind is not retried, and the third failed attempt ends the call in
\* failure.
Posts == {i \in 1..Len(http_log) : http_log[i].ev = "post"}

C3_NoExceptionEscapes ==
    epc = "done" => result.kind = "return"

\* C4: once parse_query has saved a profile of a user and cleared the caches,
\* no call of generate_job_recommendations for that user is answered from a
\* recommendation entry or a profile entry written before that update.
C4_NoStaleAnswerAfterUpdate ==
    epc = "done" => ~stale_hit

\* C10: for the empty candidate list and any profile, calculate_relevance_scores
\* and refine_recommendations return the empty list, and refine_recommendations
\* makes no HTTP call.
C10_EmptyCandidates ==
    (call.fn \in {"calculate_relevance_scores", "refine_recommendations"}
     /\ Len(call.jobs) = 0)
        => /\ pc = "done"
           /\ ret = Return(<<>>)
           /\ http_log = <<>>
           /\ api_ret = Pending

C10_Witness ==
    /\ call.fn = "refine_recommendations"
    /\ Len(call.jobs) = 0
    /\ call.user_profile.py = "None"
    /\ call.limit > 0
    /\ pc = "done"
    /\ ret = Return(<<>>)

Has(seq, x) == \E i \in 1..Len(seq) : seq[i] = x

\* C11: a call that finds an entry under its key returns the stored list as it
\* is (an empty list included), goes through no other stage (profile lookup,
\* query, aggregator, scorer, re-ranker) and leaves Redis and the users
\* collection as they were.
C11_CacheHitShortCircuits ==
    [][(/\ nrequests' = nrequests + 1
        /\ redis[cache_key(eargs'.user_id, eargs'.query, eargs'.location, eargs'.limit)].present
        /\ result' # Raise("ConnectionError"))
          => /\ epc' = "done"
             /\ result' = Return(loads(redis[cache_key(eargs'.user_id, eargs'.query,
                                                       eargs'.location, eargs'.limit)].value))
             /\ stages' = <<"cache_hit">>
             /\ redis' = redis
             /\ users_collection' = users_collection]_vars

\* a second call answered from a stored empty list
C11_Witness ==
    /\ epc = "done"
    /\ nrequests = 2
    /\ stages = <<"cache_hit">>
    /\ result = Return(<<>>)

ScoreDone == call.fn = "calculate_relevance_scores" /\ pc = "done"

ScoreReturned == ScoreDone /\ ret.kind = "return"

Scored(job) == job.score_k = "present"

\* C13: for a non-empty candidate list and a non-empty profile the returned
\* list is in descending order of relevance_score, and records of equal score
\* are in the order they had in the input.
C13_SortedDescendingStable ==
    (ScoreReturned /\ Len(call.jobs) > 0 /\ ~Falsy(call.user_profile))
        => \A i, j \in 1..Len(ret.value) :
              i < j => /\ Scored(ret.value[i]) /\ Scored(ret.value[j])
                       /\ ret.value[i].relevance_score >= ret.value[j].relevance_score
                       /\ ret.value[i].relevance_score = ret.value[j].relevance_score
                             => ret.value[i].url < ret.value[j].url

\* the second candidate overtakes the first
C13_Witness ==
    /\ ScoreReturned
    /\ call.user_profile = FullProfile
    /\ Len(ret.value) = 2
    /\ ret.value[1].url = 2
    /\ ret.value[1].relevance_score > ret.value[2].relevance_score
    /\ ret.value[2].relevance_score > 0

\* C14: whatever the input (an empty or {} profile and the failure of the
\* vectorizer included), every record of the list calculate_relevance_scores
\* returns has a numeric relevance_score.
C14_EveryRecordScored ==
    ScoreReturned => \A i \in 1..Len(ret.value) : Scored(ret.value[i])

NoTerms(kind, value) == kind \in {"absent", "None"} \/ value = <<>>

\* a dict profile with at least one key whose interests, skills, industries
\* and role are all empty or None
TermsEmpty(user_profile) ==
    /\ user_profile.py = "dict"
    /\ user_profile # EmptyProfile
    /\ NoTerms(user_profile.interests_k, user_profile.interests)
    /\ user_profile.demographics_k \in {"absent", "dict"}
    /\ user_profile.demographics_k = "dict"
         => /\ NoTerms(user_profile.skills_k, user_profile.skills)
            /\ NoTerms(user_profile.industries_k, user_profile.industries)
    /\ user_profile.preferences_k \in {"absent", "dict"}
    /\ user_profile.preferences_k = "dict"
         => (user_profile.role_k \in {"absent", "None"} \/ user_profile.role = "")

Zeroed(jobs) == [i \in 1..Len(jobs) |-> [jobs[i] EXCEPT !.score_k = "present",
                                                        !.relevance_score = 0]]

Interests(user_profile) ==
    IF user_profile.interests_k = "list"
    THEN {user_profile.interests[i] : i \in 1..Len(user_profile.interests)} ELSE {}

\* the record of the returned list that came in at position u
Returned(u) == ret.value[CHOOSE i \in 1..Len(ret.value) : ret.value[i].url = u]

\* C17: the profile document contains the interests: for a profile whose only
\* non-empty field is interests, a candidate whose text holds a word of the
\* interests gets a strictly higher relevance_score than one whose text holds
\* none.
C17_InterestsAreScored ==
    (/\ ScoreDone
     /\ ~Falsy(call.user_profile)
     /\ Interests(call.user_profile) # {}
     /\ call.user_profile.demographics_k = "absent"
     /\ call.user_profile.preferences_k = "absent"
     /\ Len(call.jobs) = 2
     /\ ~DocumentRaises(call.jobs)
     /\ Document(call.jobs[1]) \cap Interests(call.user_profile) # {}
     /\ Document(call.jobs[2]) \cap Interests(call.user_profile) = {})
        => /\ ret.kind = "return"
           /\ Returned(1).relevance_score > Returned(2).relevance_score

\* a dict profile with at least one key in which interests, preferences or
\* demographics is absent or None
NullField(user_profile) ==
    /\ user_profile.py = "dict"
    /\ ~Falsy(user_profile)
    /\ \/ user_profile.interests_k \in {"absent", "None"}
       \/ user_profile.preferences_k \in {"absent", "None"}
       \/ user_profile.demographics_k \in {"absent", "None"}

\* C18: for a profile in which any of interests, preferences, demographics is
\* absent or None, calculate_relevance_scores and refine_recommendations
\* complete without raising: the scorer returns every record with a
\* relevance_score, the re-ranker returns at most limit records.
C18_NullFieldsTolerated ==
    (/\ pc = "done"
     /\ NullField(call.user_profile)
     /\ Len(call.jobs) > 0
     /\ call.fn = "calculate_relevance_scores" => ~DocumentRaises(call.jobs))
        => /\ ret.kind = "return"
           /\ call.fn = "calculate_relevance_scores"
                => \A i \in 1..Len(ret.value) : Scored(ret.value[i])
           /\ call.fn = "refine_recommendations" => Len(ret.value) <= call.limit

\* a record but for its score
Unscored(job) == [job EXCEPT !.score_k = "absent", !.relevance_score = 0]

\* C19: the list calculate_relevance_scores returns is a permutation of the
\* input list: every input record exactly once (its score aside), none added.
C19_ReturnsPermutation ==
    ScoreReturned
        => /\ Len(ret.value) = Len(call.jobs)
           /\ \A u \in 1..Len(call.jobs) :
                 /\ Cardinality({i \in 1..Len(ret.value) : ret.value[i].url = u}) = 1
                 /\ Unscored(Returned(u)) = Unscored(call.jobs[u])

\* the second record of the input comes back first, the first second
C19_Witness ==
    /\ ScoreReturned
    /\ call.user_profile = NoneSkillsProfile
    /\ Len(call.jobs) = 2
    /\ Len(ret.value) = 2
    /\ ret.value[1].url = 2 /\ ret.value[2].url = 1
    /\ Unscored(ret.value[2]) = Unscored(call.jobs[1])
    /\ ret.value[1].relevance_score > 0

\* the call gets to the try block of lines 57-128
ReachesTry(jobs, user_profile) ==
    /\ Len(jobs) > 0
    /\ ~Falsy(user_profile)
    /\ user_profile.demographics_k # "None"
    /\ user_profile.preferences_k # "None"
    /\ profile_terms(user_profile) # {}
    /\ ~DocumentRaises(jobs)

\* something fails in it: the vectorizer on an empty vocabulary, the location
\* boost on a None location of the profile, the log line on a missing title
FailsInTry(jobs, user_profile) ==
    \/ Vocabulary(jobs, profile_terms(user_profile)) = {}
    \/ user_profile.preferences_k = "dict" /\ user_profile.location_k = "None"
    \/ \E i \in 1..Len(jobs) : jobs[i].title_k = "absent"

\* C20: when anything fails inside the try block (the vectorizer, or a boost
\* or the log line of some record), calculate_relevance_scores does not raise:
\* it sets relevance_score to 0 on every record, those already scored before
\* the failure included, and returns the records in input order.
C20_FailureZeroesAll ==
    (/\ ScoreDone
     /\ ReachesTry(call.jobs, call.user_profile)
     /\ FailsInTry(call.jobs, call.user_profile))
        => ret = Return(Zeroed(call.jobs))

\* the first record matches the profile and is scored, the log line of the
\* second raises KeyError: both come back with 0, in input order
C20_Witness ==
    /\ ScoreDone
    /\ call.user_profile = FullProfile
    /\ Len(call.jobs) = 2
    /\ call.jobs[1].title_k = "str"
    /\ Document(call.jobs[1]) \cap profile_terms(FullProfile) # {}
    /\ call.jobs[2].title_k = "absent"
    /\ ret.kind = "return"
    /\ ret.value[1].url = 1 /\ ret.value[1].relevance_score = 0
    /\ ret.value[2].url = 2 /\ ret.value[2].relevance_score = 0

\* the vectorizer raises ValueError: every text is made of stop words
C20_EmptyVocabulary ==
    /\ ScoreDone
    /\ call.user_profile = StopWordProfile
    /\ Len(call.jobs) > 0
    /\ Vocabulary(call.jobs, profile_terms(StopWordProfile)) = {}
    /\ ret = Return(Zeroed(call.jobs))

(***************************************************************************)
(* Properties of the aggregator.                                           *)
(***************************************************************************)
FetchReturned == spc = "done" /\ sret.kind = "return"

\* C21: when two connectors return a record with the same link, the merged
\* output of fetch_from_all_sources holds exactly one record with that link
\* (the later connector's): no two records of different connectors share a
\* link.
C21_OneRecordPerLink ==
    FetchReturned
        => \A i, j \in 1..Len(sret.value) :
              (i < j /\ sret.value[i].link = sret.value[j].link)
                  => sret.value[i].source = sret.value[j].source

\* C22: a connector that fails contributes no record and does not abort the
\* aggregation: whatever the connectors' exchanges, fetch_from_all_sources
\* called with a dict profile returns, and returns the records of the
\* connectors that succeeded.
C22_ConnectorFailureIsolated ==
    (spc = "done" /\ sargs.py = "dict")
        => sret = Return(all_results)

\* some interest of the profile equals, case ignored, one of the synonyms
Wanted(synonyms) ==
    /\ sargs.py = "dict"
    /\ sargs.interests_k = "list"
    /\ \E i \in 1..Len(sargs.interests) : Lower(sargs.interests[i]) \in synonyms

BooksSynonyms == {"books", "reading", "literature"}
MoviesSynonyms == {"movies", "films", "cinema"}

C23_NoMatch ==
    /\ FetchReturned
    /\ sargs.interests = <<"bookstore", "AI">>
    /\ invoked = <<"web_search">>

(***************************************************************************)
(* The scorer's boosts.                                                    *)
(***************************************************************************)
\* the call went through the loop of lines 81-128 for every record
ScoredInLoop ==
    /\ ScoreReturned
    /\ ReachesTry(call.jobs, call.user_profile)
    /\ ~FailsInTry(call.jobs, call.user_profile)

PrefersRemote(job) == call.user_profile.remote = "True" /\ "remote" \in job.location
PrefersHybrid(job) == call.user_profile.hybrid = "True" /\ "hybrid" \in job.location

\* the score of a record whose work-mode boost is log1p(score * pct / 100),
\* pct = 0 for no boost
ScoreWithWorkMode(u, pct) ==
    LET job == call.jobs[u]
        located == LocationBoost(call.scaled_scores[u], job, call.user_profile)
        moded == IF pct = 0 THEN located ELSE located + Log1p(located, pct)
    IN Round2(SourceBoost(RecencyBoost(CompanyBoost(moded, job, call.user_profile), job), job))

\* C24: the remote and the hybrid boost exclude each other on a record: when
\* the profile prefers remote and the location contains "remote", the remote
\* boost (0.4) alone is applied, also when the profile prefers hybrid and the
\* location contains "hybrid"; the hybrid boost (0.3) is applied only when
\* the remote boost is not.
C24_WorkModeBoostsExclusive ==
    ScoredInLoop
        => \A u \in 1..Len(call.jobs) :
              Returned(u).relevance_score =
                  ScoreWithWorkMode(u, IF PrefersRemote(call.jobs[u]) THEN 40
                                       ELSE IF PrefersHybrid(call.jobs[u]) THEN 30
                                       ELSE 0)

\* the profile prefers both, the first record's location has both and gets
\* the remote boost only; the second record's location has "hybrid" only and
\* gets the hybrid boost
C24_Witness ==
    /\ ScoredInLoop
    /\ call.user_profile = BothModesProfile
    /\ Len(call.jobs) = 2
    /\ PrefersRemote(call.jobs[1]) /\ PrefersHybrid(call.jobs[1])
    /\ Returned(1).relevance_score = ScoreWithWorkMode(1, 40)
    /\ Returned(1).relevance_score > ScoreWithWorkMode(1, 0)
    /\ ~PrefersRemote(call.jobs[2]) /\ PrefersHybrid(call.jobs[2])
    /\ Returned(2).relevance_score = ScoreWithWorkMode(2, 30)
    /\ Returned(2).relevance_score > ScoreWithWorkMode(2, 0)

(***************************************************************************)
(* What the re-ranker leaves of its input.                                 *)
(***************************************************************************)
\* the call returned from the except clause
FellBack ==
    /\ EnteredTry
    /\ ret.kind = "return"
    /\ \/ api_ret.kind = "raise"
       \/ TryBody(api_ret.value, top_jobs_of(call.jobs), call.limit).kind = "raise"

\* C30: refine_recommendations never modifies the list or the records it is
\* given: after the call every input record has the fields and values it had
\* before (explanation and the LLM's score go to copies), and on the fallback
\* path the returned records are the input records, no field added.
C30_InputUntouched ==
    RefineDone
        => /\ jobs_after = call.jobs
           /\ FellBack
                => /\ Len(ret.value) <= Len(call.jobs)
                   /\ \A i \in 1..Len(ret.value) : ret.value[i] = call.jobs[i]

\* a call that returned the first record with an explanation and left the
\* input record without it
C30_Witness ==
    /\ RefineDone
    /\ ret.kind = "return"
    /\ Len(ret.value) >= 1
    /\ HasKey(ret.value[1], "explanation")
    /\ ret.value[1].title = 1
    /\ ~HasKey(jobs_after[1], "explanation")
    /\ jobs_after = call.jobs

\* a call that fell back with two records
C30_FallbackWitness ==
    /\ FellBack
    /\ Len(ret.value) = 2
    /\ jobs_after = call.jobs

(***************************************************************************)
(* The caches of the orchestrator and of the profile store.                *)
(***************************************************************************)
RequestKey == cache_key(eargs.user_id, eargs.query, eargs.location, eargs.limit)

\* C25: once clear_user_job_cache(u) has completed after an update of u's
\* profile, no recommendation entry of u holds a list computed from the
\* profile of before the update: a call for u that read the old profile,
\* was in flight during the update and the invalidation and ends afterwards
\* does not put its list in the cache.
C25_NoStaleWriteAfterInvalidation ==
    [][(epc = "store" /\ outdated = "cleared") => ~redis'[RequestKey].present]_vars

NoCache == [k \in RedisKeys |-> Absent]

\* C26: whenever the profile cache holds an entry for a user, the entry
\* equals the profile stored in the database for that user: after any
\* sequence of save_user_profile, get_user_profile and delete_user_profile,
\* get_user_profile(u) returns what it would return with an empty cache.
C26_ProfileCacheMatchesStore ==
    \A u \in Users :
        /\ redis[profile_key(u)].present
              => loads(redis[profile_key(u)].value) = users_collection[u]
        /\ get_user_profile(redis, users_collection, u, TRUE).profile
              = get_user_profile(NoCache, users_collection, u, TRUE).profile

\* C27: after delete_user_profile(u) has returned True and until a profile
\* of u is saved again, every call generate_job_recommendations(u, ...)
\* returns the empty list, whatever was cached before the deletion: a call
\* for a user without a document that is answered at the cache lookup is
\* answered with the empty list (a call that goes on to the profile lookup
\* finds no profile and returns the empty list, C12).
C27_DeletedUserGetsEmptyList ==
    [][(/\ nrequests' = nrequests + 1
        /\ users_collection[eargs'.user_id].py = "None"
        /\ epc' = "done"
        /\ result'.kind = "return")
          => result'.value = <<>>]_vars

\* C28: the cache key is injective on the request: two calls that differ in
\* user_id, limit, query or location (an omitted query or location differing
\* from every string) have different keys.
C28_CacheKeyInjective ==
    kcalls[1] # kcalls[2] => kkeys[1] # kkeys[2]

RecommendationKeys == {k \in RedisKeys : k[1] = "job_recommendations"}

\* C29: generate_job_recommendations writes the recommendation cache only as
\* its last step, and then the list the re-ranker returned to this call,
\* under this call's key; a step of a call that ends because the profile is
\* missing or because a stage raised leaves every recommendation entry as it
\* was, and a missing profile is not written to the profile cache.
C29_CacheWrittenLastOnly ==
    [][(nrequests' # nrequests \/ epc' # epc)
          => IF epc = "store" /\ result'.kind = "return"
             THEN /\ epc' = "done"
                  /\ stages[Len(stages)] = "refine"
                  /\ result'.value = final_recommendations
                  /\ redis'[RequestKey].present
                  /\ loads(redis'[RequestKey].value) = final_recommendations
                  /\ \A k \in RedisKeys \ {RequestKey} : redis'[k] = redis[k]
             ELSE /\ \A k \in RecommendationKeys : redis'[k] = redis[k]
                  /\ stages'[Len(stages')] = "profile_none" => redis' = redis]_vars

\* a call that cached and returned a non-empty list
C29_Witness ==
    /\ epc = "done"
    /\ stages[Len(stages)] = "cache_set"
    /\ result.kind = "return"
    /\ Len(result.value) > 0
    /\ redis[RequestKey].present
    /\ loads(redis[RequestKey].value) = result.value

\* a call that found no profile, with an entry of an earlier call in the cache
C29_NoProfileWitness ==
    /\ epc = "done"
    /\ stages[Len(stages)] = "profile_none"
    /\ \E k \in RecommendationKeys : redis[k].present
    /\ ~redis[profile_key(eargs.user_id)].present

====
